---- MODULE Spec2Model ----
(***************************************************************************)
(* nasmfmt: the line recognizer (package nasm) and the block formatter     *)
(* (package nasmfmt).  Text is a sequence of one-character strings; byte   *)
(* offsets are Go's (0-based), so Slice(s, i, j) is Go's s[i:j].           *)
(***************************************************************************)
EXTENDS Integers, Sequences, FiniteSets, TLC

(***************************************************************************)
(* Go's strings package, on sequences of characters.                       *)
(***************************************************************************)
Slice(s, i, j) == SubSeq(s, i + 1, j)

From(s, i) == SubSeq(s, i + 1, Len(s))

IsSpace(c) == c \in {" ", "\t"}

Digits == {"0", "1", "2", "3", "4", "5", "6", "7", "8", "9"}

UpperSeq == <<"A", "B", "C", "D", "E", "F", "G", "H", "I", "J", "K", "L", "M",
              "N", "O", "P", "Q", "R", "S", "T", "U", "V", "W", "X", "Y", "Z">>

LowerSeq == <<"a", "b", "c", "d", "e", "f", "g", "h", "i", "j", "k", "l", "m",
              "n", "o", "p", "q", "r", "s", "t", "u", "v", "w", "x", "y", "z">>

SeqRange(s) == {s[i] : i \in 1..Len(s)}

UpperChars == SeqRange(UpperSeq)

\* \w of Go's regexp: [0-9A-Za-z_]
WordChars == Digits \cup UpperChars \cup SeqRange(LowerSeq) \cup {"_"}

IsWord(c) == c \in WordChars

LowerMap == [c \in UpperChars |-> LowerSeq[CHOOSE i \in 1..Len(UpperSeq) : UpperSeq[i] = c]]

\* case folding of (?i)
Lower(c) == IF c \in UpperChars THEN LowerMap[c] ELSE c

Max(a, b) == IF a >= b THEN a ELSE b

\* strings.Repeat(" ", n)
Spaces(n) == [i \in 1..n |-> " "]

\* strings.Index(s, c) for a one-character c: the first offset of c, or -1
Index(s, c) ==
    IF \E i \in 1..Len(s) : s[i] = c
    THEN (CHOOSE i \in 1..Len(s) : s[i] = c /\ \A k \in 1..(i - 1) : s[k] /= c) - 1
    ELSE -1

\* strings.Contains(s, c) for a one-character c
Contains(s, c) == \E i \in 1..Len(s) : s[i] = c

\* the number of leading whitespace characters of s
LeadingSpaces(s) ==
    IF \A i \in 1..Len(s) : IsSpace(s[i])
    THEN Len(s)
    ELSE (CHOOSE i \in 1..Len(s) : ~IsSpace(s[i]) /\ \A k \in 1..(i - 1) : IsSpace(s[k])) - 1

\* the number of trailing whitespace characters of s
TrailingSpaces(s) ==
    IF \A i \in 1..Len(s) : IsSpace(s[i])
    THEN Len(s)
    ELSE Len(s) - (CHOOSE i \in 1..Len(s) :
                      ~IsSpace(s[i]) /\ \A k \in (i + 1)..Len(s) : IsSpace(s[k]))

\* strings.TrimLeftFunc(s, unicode.IsSpace)
TrimLeft(s) == From(s, LeadingSpaces(s))

\* strings.TrimSpace(s)
TrimSpace(s) ==
    IF LeadingSpaces(s) = Len(s) THEN <<>>
    ELSE Slice(s, LeadingSpaces(s), Len(s) - TrailingSpaces(s))

RECURSIVE Split(_, _)
\* strings.Split(s, c) for a one-character c: always at least one piece
Split(s, c) ==
    IF Index(s, c) = -1 THEN <<s>>
    ELSE <<Slice(s, 0, Index(s, c))>> \o Split(From(s, Index(s, c) + 1), c)

RECURSIVE Join(_, _)
\* strings.Join(parts, sep)
Join(parts, sep) ==
    IF Len(parts) = 0 THEN <<>>
    ELSE IF Len(parts) = 1 THEN parts[1]
    ELSE parts[1] \o sep \o Join(Tail(parts), sep)

RECURSIVE Concat(_)
Concat(parts) == IF Len(parts) = 0 THEN <<>> ELSE parts[1] \o Concat(Tail(parts))

(***************************************************************************)
(* Quote Mask.  The characters between a quote and the next quote of the   *)
(* same kind become the placeholder c; the delimiters and everything       *)
(* outside quotes pass through, so offsets in the mask are offsets in s.   *)
(***************************************************************************)
RECURSIVE NoQuotes(_, _)
NoQuotes(s, c) ==
    IF Len(s) = 0 THEN <<>>
    ELSE IF s[1] \in {"\"", "'"} /\ Index(Tail(s), s[1]) /= -1
    THEN <<s[1]>> \o [i \in 1..Index(Tail(s), s[1]) |-> c] \o <<s[1]>>
         \o NoQuotes(From(Tail(s), Index(Tail(s), s[1]) + 1), c)
    ELSE <<s[1]>> \o NoQuotes(Tail(s), c)

(***************************************************************************)
(* Token Model.  One record shape for the six token types; a token type    *)
(* uses the fields its Go struct has.  NoToken is the nil Token.           *)
(***************************************************************************)
NoToken ==
    [kind |-> "nil", Label |-> <<>>, Instr |-> <<>>, Args |-> <<>>,
     Keyword |-> <<>>, Name |-> <<>>, Text |-> <<>>, Comment |-> <<>>]

LabelToken(label) == [NoToken EXCEPT !.kind = "Label", !.Label = label]

InstructionToken(instr, args) ==
    [NoToken EXCEPT !.kind = "Instruction", !.Instr = instr, !.Args = args]

SectionToken(keyword, name) ==
    [NoToken EXCEPT !.kind = "Section", !.Keyword = keyword, !.Name = name]

DirectiveToken(keyword, text) ==
    [NoToken EXCEPT !.kind = "Directive", !.Keyword = keyword, !.Text = text]

PseudoToken(label, instr, text) ==
    [NoToken EXCEPT !.kind = "Pseudo", !.Label = label, !.Instr = instr, !.Text = text]

CommentToken(comment) == [NoToken EXCEPT !.kind = "Comment", !.Comment = comment]

sectionKeywords ==
    << <<"s", "e", "c", "t", "i", "o", "n">>,
       <<"s", "e", "g", "m", "e", "n", "t">> >>

directiveKeywords ==
    << <<"d", "e", "f", "a", "u", "l", "t">>,
       <<"a", "b", "s", "o", "l", "u", "t", "e">>,
       <<"e", "x", "t", "e", "r", "n">>,
       <<"g", "l", "o", "b", "a", "l">>,
       <<"c", "o", "m", "m", "o", "n">>,
       <<"c", "p", "u">>,
       <<"f", "l", "o", "a", "t">> >>

pseudoKeywords ==
    << <<"d", "b">>,
       <<"d", "w">>,
       <<"d", "d">>,
       <<"d", "q">>,
       <<"d", "t">>,
       <<"d", "d", "q">>,
       <<"d", "o">>,
       <<"r", "e", "s", "b">>,
       <<"r", "e", "s", "w">>,
       <<"r", "e", "s", "d">>,
       <<"r", "e", "s", "q">>,
       <<"r", "e", "s", "t">>,
       <<"r", "e", "s", "d", "q">>,
       <<"r", "e", "s", "o">>,
       <<"r", "e", "s", "y">>,
       <<"r", "e", "s", "z">>,
       <<"i", "n", "c", "b", "i", "n">>,
       <<"e", "q", "u">>,
       <<"t", "i", "m", "e", "s">> >>

\* keyword kw stands at offset p of s, letter case ignored
KeywordAt(s, p, kw) ==
    /\ p + Len(kw) <= Len(s)
    /\ \A k \in 1..Len(kw) : Lower(s[p + k]) = kw[k]

\* the end offset of the maximal run of characters satisfying IsSpace from p
SpaceRunEnd(s, p) == p + LeadingSpaces(From(s, p))

\* the end offset of the maximal run of non-whitespace characters from p
TextRunEnd(s, p) ==
    IF \E i \in (p + 1)..Len(s) : IsSpace(s[i])
    THEN (CHOOSE i \in (p + 1)..Len(s) :
             IsSpace(s[i]) /\ \A k \in (p + 1)..(i - 1) : ~IsSpace(s[k])) - 1
    ELSE Len(s)

\* The pattern ^(?i)\s*(kw1|kw2|...)\s+([^;\s]*)\s*$ on the masked line: the
\* submatch offsets <<k0, k1, n0, n1>> of keyword and name, or <<>> for no
\* match.  A ';' in the name fails the match.
\* the name [n0, n1) after the keyword [p, k1) and the whitespace [k1, n0)
KeywordLineName(noq, p, k1, n0, n1) ==
    IF /\ n0 > k1
       /\ ~Contains(Slice(noq, n0, n1), ";")
       /\ SpaceRunEnd(noq, n1) = Len(noq)
    THEN <<p, k1, n0, n1>>
    ELSE <<>>

\* the match when the keywords numbered in hit stand at offset p
KeywordLineAt(noq, kws, p, hit) ==
    IF hit = {} THEN <<>>
    ELSE KeywordLineName(noq, p, p + Len(kws[CHOOSE i \in hit : TRUE]),
             SpaceRunEnd(noq, p + Len(kws[CHOOSE i \in hit : TRUE])),
             TextRunEnd(noq, SpaceRunEnd(noq, p + Len(kws[CHOOSE i \in hit : TRUE]))))

KeywordLineMatch(noq, kws) ==
    KeywordLineAt(noq, kws, LeadingSpaces(noq),
                  {i \in 1..Len(kws) : KeywordAt(noq, LeadingSpaces(noq), kws[i])})

\* sectionRe.FindStringSubmatchIndex
sectionRe(noq) == KeywordLineMatch(noq, sectionKeywords)

\* directiveRe.FindStringSubmatchIndex
directiveRe(noq) == KeywordLineMatch(noq, directiveKeywords)

\* ParseSectionToken, given the submatch offsets
SectionTokenAt(line, ind) ==
    IF ind = <<>> THEN [token |-> NoToken, rest |-> line]
    ELSE [token |-> SectionToken(Slice(line, ind[1], ind[2]), Slice(line, ind[3], ind[4])),
          rest |-> <<>>]

ParseSectionToken(line) == SectionTokenAt(line, sectionRe(NoQuotes(line, "x")))

\* ParseDirectiveToken, given the submatch offsets
DirectiveTokenAt(line, ind) ==
    IF ind = <<>> THEN [token |-> NoToken, rest |-> line]
    ELSE [token |-> DirectiveToken(Slice(line, ind[1], ind[2]), Slice(line, ind[3], ind[4])),
          rest |-> <<>>]

ParseDirectiveToken(line) == DirectiveTokenAt(line, directiveRe(NoQuotes(line, "x")))

\* The pattern (?i)(.*?):?(?:\s|^)(kw1|...)(?:\s|") on the masked line.  The
\* match is leftmost, so it starts at offset 0, and the lazy group takes the
\* shortest prefix after which the rest matches.  PseudoKeywordStart is the
\* offset of the keyword when the lazy group ends at i, or -1.
\* the end offset of the pseudo keyword standing at offset p, followed by
\* whitespace or a double quote; -1 when none does
PseudoKeywordsAt(noq, p) ==
    {i \in 1..Len(pseudoKeywords) :
        /\ KeywordAt(noq, p, pseudoKeywords[i])
        /\ p + Len(pseudoKeywords[i]) < Len(noq)
        /\ noq[p + Len(pseudoKeywords[i]) + 1] \in {" ", "\t", "\""}}

PseudoKeywordEnd(noq, p) ==
    IF PseudoKeywordsAt(noq, p) = {} THEN -1
    ELSE p + Len(pseudoKeywords[CHOOSE i \in PseudoKeywordsAt(noq, p) : TRUE])

PseudoKeywordStart(noq, i) ==
    IF /\ i + 2 <= Len(noq)
       /\ noq[i + 1] = ":"
       /\ IsSpace(noq[i + 2])
       /\ PseudoKeywordEnd(noq, i + 2) /= -1
    THEN i + 2
    ELSE IF i + 1 <= Len(noq) /\ IsSpace(noq[i + 1]) /\ PseudoKeywordEnd(noq, i + 1) /= -1
    THEN i + 1
    ELSE IF i = 0 /\ PseudoKeywordEnd(noq, 0) /= -1
    THEN 0
    ELSE -1

\* pseudoRe.FindStringSubmatchIndex: <<0, i, k0, k1>> or <<>>
\* the submatch offsets when the lazy group ends at i and the keyword starts at k0
PseudoMatch(noq, i, k0) == <<0, i, k0, PseudoKeywordEnd(noq, k0)>>

\* the match, given the offsets at which the lazy group can end
PseudoMatchAmong(noq, ends) ==
    IF ends = {} THEN <<>>
    ELSE PseudoMatch(noq, CHOOSE i \in ends : \A k \in ends : i <= k,
                     PseudoKeywordStart(noq, CHOOSE i \in ends : \A k \in ends : i <= k))

pseudoRe(noq) ==
    PseudoMatchAmong(noq, {i \in 0..Len(noq) : PseudoKeywordStart(noq, i) /= -1})

\* a Pseudo token that leaves the label group out
PseudoTokenAtNoLabel(line, idx) ==
    IF idx = <<>> THEN [token |-> NoToken, rest |-> line]
    ELSE [token |-> PseudoToken(<<>>, Slice(line, idx[3], idx[4]), TrimSpace(From(line, idx[4]))),
          rest |-> <<>>]

\* ParsePseudoToken, given the submatch offsets
PseudoTokenAt(line, idx) ==
    IF idx = <<>> THEN [token |-> NoToken, rest |-> line]
    ELSE [token |-> PseudoToken(TrimSpace(Slice(line, idx[1], idx[2])),
                                Slice(line, idx[3], idx[4]),
                                TrimSpace(From(line, idx[4]))),
          rest |-> <<>>]

ParsePseudoToken(line) == PseudoTokenAt(line, pseudoRe(NoQuotes(line, "x")))

\* ParseLabelToken, given the offset of the first unmasked ':'
LabelTokenAt(line, idx) ==
    IF idx = -1 THEN [token |-> NoToken, rest |-> line]
    ELSE IF Contains(From(line, idx + 1), "[") /\ Contains(From(line, idx + 1), "]")
    THEN [token |-> NoToken, rest |-> line]
    ELSE [token |-> LabelToken(TrimSpace(Slice(line, 0, idx))), rest |-> From(line, idx + 1)]

ParseLabelToken(line) == LabelTokenAt(line, Index(NoQuotes(line, "x"), ":"))

\* The pattern \s*(\w+), unanchored, on the masked line: the submatch offsets
\* <<w, e>> of the first run of word characters, or <<>> when there is none.
\* the end offset of the run of word characters that starts at offset w
WordRunEnd(noq, w) ==
    IF \E i \in (w + 1)..Len(noq) : ~IsWord(noq[i])
    THEN (CHOOSE i \in (w + 1)..Len(noq) :
             ~IsWord(noq[i]) /\ \A k \in (w + 1)..(i - 1) : IsWord(noq[k])) - 1
    ELSE Len(noq)

\* the match whose word run starts at offset w
WordRun(noq, w) == <<w, WordRunEnd(noq, w)>>

instrRe(noq) ==
    IF \E i \in 1..Len(noq) : IsWord(noq[i])
    THEN WordRun(noq, (CHOOSE i \in 1..Len(noq) :
                          IsWord(noq[i]) /\ \A k \in 1..(i - 1) : ~IsWord(noq[k])) - 1)
    ELSE <<>>

\* the operands: the pieces between commas, each one trimmed
TrimAll(args) == [i \in 1..Len(args) |-> TrimSpace(args[i])]

\* ParseInstructionToken on the left-trimmed line, given the submatch offsets
InstructionTokenAt(line, instrIdx) ==
    IF instrIdx = <<>> THEN [token |-> NoToken, rest |-> line]
    ELSE [token |-> InstructionToken(Slice(line, instrIdx[1], instrIdx[2]),
                                     TrimAll(Split(From(line, instrIdx[2]), ","))),
          rest |-> <<>>]

ParseInstructionToken(line) ==
    InstructionTokenAt(TrimLeft(line), instrRe(NoQuotes(TrimLeft(line), "x")))

\* the comment body: one leading space stripped, unless the body is one space
CommentBody(cmt) ==
    IF cmt /= <<" ">> /\ Len(cmt) > 0 /\ cmt[1] = " " THEN Tail(cmt) ELSE cmt

\* ParseCommentToken, given the offset of the first unmasked ';'
CommentTokenAt(line, idx) ==
    IF idx = -1 THEN [token |-> NoToken, rest |-> line]
    ELSE [token |-> CommentToken(CommentBody(From(line, idx + 1))),
          rest |-> Slice(line, 0, idx)]

\* the comment split at the first ';' of the raw line, quoted or not
ParseCommentTokenRaw(line) == CommentTokenAt(line, Index(line, ";"))

ParseCommentToken(line) == CommentTokenAt(line, Index(NoQuotes(line, "x"), ";"))

\* Token.String() of each token type
TokenString(t) ==
    CASE t.kind = "Label" -> t.Label \o <<":">>
      [] t.kind = "Instruction" ->
            IF Len(t.Args) > 0 THEN t.Instr \o <<"\t">> \o Join(t.Args, <<",", " ">>)
            ELSE t.Instr
      [] t.kind = "Section" -> t.Keyword \o <<" ">> \o t.Name
      [] t.kind = "Directive" -> t.Keyword \o <<" ">> \o t.Text
      [] t.kind = "Pseudo" -> t.Label \o <<"\t">> \o t.Instr \o <<"\t">> \o t.Text
      [] t.kind = "Comment" -> <<";", " ">> \o t.Comment
      [] OTHER -> <<>>

(***************************************************************************)
(* Line Recognizer and File Parser.                                        *)
(***************************************************************************)
\* TokenParsers, in order
TokenParsers(k, line) ==
    CASE k = 1 -> ParseCommentToken(line)
      [] k = 2 -> ParseSectionToken(line)
      [] k = 3 -> ParseDirectiveToken(line)
      [] k = 4 -> ParsePseudoToken(line)
      [] k = 5 -> ParseLabelToken(line)
      [] OTHER -> ParseInstructionToken(line)

NumTokenParsers == 6

RECURSIVE RunParsers(_, _, _)
\* the body of ParseLine's loop for parser k, r being what the parser returned
RunParser(k, r, tokens) ==
    IF r.rest = <<>>
    THEN [tokens |-> IF r.token /= NoToken THEN Append(tokens, r.token) ELSE tokens,
          rest |-> <<>>]
    ELSE RunParsers(k + 1, r.rest,
                    IF r.token /= NoToken THEN Append(tokens, r.token) ELSE tokens)

\* the loop of ParseLine from parser k on: the tokens found and the text left
RunParsers(k, line, tokens) ==
    IF k > NumTokenParsers THEN [tokens |-> tokens, rest |-> line]
    ELSE RunParser(k, TokenParsers(k, line), tokens)

\* PopToken[CommentToken]: the first comment token (the zero CommentToken when
\* there is none) and the tokens without it
PopAt(tokens, i) ==
    [comment |-> tokens[i].Comment,
     tokens |-> SubSeq(tokens, 1, i - 1) \o SubSeq(tokens, i + 1, Len(tokens))]

PopComment(tokens) ==
    IF \A i \in 1..Len(tokens) : tokens[i].kind /= "Comment"
    THEN [comment |-> <<>>, tokens |-> tokens]
    ELSE PopAt(tokens, CHOOSE i \in 1..Len(tokens) :
                          /\ tokens[i].kind = "Comment"
                          /\ \A k \in 1..(i - 1) : tokens[k].kind /= "Comment")

\* Line.Token: the structural token of the line, nil when it has none
StructuralToken(tokens) == IF Len(tokens) = 0 THEN NoToken ELSE tokens[1]

\* a Line: its structural Token and its Comment (CommentToken{} is the empty text)
Line(token, comment) == [Token |-> token, Comment |-> comment]

\* ParseLine: err with the excess text, or the Line
\* the Line of the tokens, p being what PopToken returned
LineOf(p) == Line(StructuralToken(p.tokens), p.comment)

\* the end of ParseLine, r being what its loop left
ParsedLine(r) ==
    IF r.rest /= <<>>
    THEN [err |-> TRUE, excess |-> r.rest, line |-> Line(NoToken, <<>>)]
    ELSE [err |-> FALSE, excess |-> <<>>, line |-> LineOf(PopComment(r.tokens))]

ParseLine(line) == ParsedLine(RunParsers(1, line, <<>>))

IsEmpty(l) == l.Token = NoToken /\ l.Comment = <<>>

NoErr == [failed |-> FALSE, line |-> -1, excess |-> <<>>]

\* fmt.Errorf("error at line %d: %w", lineIdx, err) of ParseLines
LineError(lineIdx, excess) == [failed |-> TRUE, line |-> lineIdx, excess |-> excess]

RECURSIVE ParseLinesFrom(_, _, _)
\* the body of ParseLines' loop, r being what ParseLine returned
ParseLinesStep(text, lineIdx, lines, r) ==
    IF r.err THEN [lines |-> lines, err |-> LineError(lineIdx, r.excess)]
    ELSE ParseLinesFrom(text, lineIdx + 1, Append(lines, r.line))

\* ParseLines from line lineIdx on, lines being the Lines parsed so far
ParseLinesFrom(text, lineIdx, lines) ==
    IF lineIdx >= Len(text) THEN [lines |-> lines, err |-> NoErr]
    ELSE ParseLinesStep(text, lineIdx, lines, ParseLine(text[lineIdx + 1]))

ParseLines(text) == ParseLinesFrom(text, 0, <<>>)

(***************************************************************************)
(* Block Segmenter: the closures and the loop body of Format.              *)
(***************************************************************************)
addBlock(bs) == IF bs[Len(bs)] /= <<>> THEN Append(bs, <<>>) ELSE bs

addToBlock(bs, line) == [bs EXCEPT ![Len(bs)] = Append(bs[Len(bs)], line)]

\* a Section line left in the open block: the closing addBlock forgotten
addSectionUnclosed(bs, line) == addToBlock(addBlock(bs), line)

\* the Section branch: close the block, open one for the line, close it again
addSection(bs, line) == addBlock(addToBlock(addBlock(bs), line))

SegmentLine(bs, line) ==
    IF IsEmpty(line) THEN addBlock(bs)
    ELSE IF line.Token.kind = "Section" THEN addSection(bs, line)
    ELSE addToBlock(bs, line)

RECURSIVE SegmentFrom(_, _, _)
SegmentFrom(lines, i, bs) ==
    IF i > Len(lines) THEN bs ELSE SegmentFrom(lines, i + 1, SegmentLine(bs, lines[i]))

\* the blocks Format builds from the parsed lines
Segment(lines) == SegmentFrom(lines, 1, << <<>> >>)

(***************************************************************************)
(* Column Aligner: text/tabwriter with minwidth 1, tabwidth 0, padding 1,  *)
(* padchar ' ' and no flags.  A line is split into cells at its tabs; a    *)
(* cell followed by a tab is padded to the width of its column block, the  *)
(* maximal run of consecutive lines that have a tab-terminated cell in     *)
(* that column; the last cell of a line is written as it is.               *)
(***************************************************************************)
TabMinWidth == 1

TabPadding == 1

Cells(line) == Split(line, "\t")

\* the number of tab-terminated cells of a line
NumTabs(line) == Len(Cells(line)) - 1

SetMax(S) == CHOOSE x \in S : \A y \in S : x >= y

\* the lines of the column block of column j (1-based) that holds line i
ColumnBlock(lines, i, j) ==
    {l \in 1..Len(lines) :
        \A m \in (IF l < i THEN l ELSE i)..(IF l < i THEN i ELSE l) : NumTabs(lines[m]) >= j}

\* a column as wide as the cell of line i alone: the column block ignored
ColumnWidthOwn(lines, i, j) == Max(TabMinWidth, Len(Cells(lines[i])[j]) + TabPadding)

\* the width tabwriter gives column j in the column block of line i
ColumnWidth(lines, i, j) ==
    Max(TabMinWidth,
        SetMax({Len(Cells(lines[l])[j]) + TabPadding : l \in ColumnBlock(lines, i, j)}))

\* the cells of line i as tabwriter writes them: padded, but for the last
PadCells(lines, i, cells) ==
    [j \in 1..Len(cells) |->
        IF j < Len(cells)
        THEN cells[j] \o Spaces(ColumnWidth(lines, i, j) - Len(cells[j]))
        ELSE cells[j]]

ValignCells(lines, i) == PadCells(lines, i, Cells(lines[i]))

\* valign: the lines tabwriter writes, each one followed by a newline
valign(lines) == [i \in 1..Len(lines) |-> Concat(ValignCells(lines, i))]

(***************************************************************************)
(* Comment Overlay: writeBlock.                                            *)
(***************************************************************************)
\* writeLinesNoComment: the core of each line of the block
writeLinesNoComment(block, cfg) ==
    [i \in 1..Len(block) |->
        IF block[i].Token = NoToken THEN <<>>
        ELSE (IF block[i].Token.kind = "Instruction"
              THEN Spaces(cfg.InstructionIndent) ELSE <<>>)
             \o TokenString(block[i].Token)]

\* the padding without its floor of one space
CommentPadNoFloor(cfg, s) == cfg.CommentIndent - (Len(s) + 1)

\* the padding writeBlock puts between the code of an Instruction and its comment
CommentPad(cfg, s) == Max(cfg.CommentIndent - (Len(s) + 1), 1)

\* the body of the overlay loop for index i (1-based): the new lines[i]
\* the padding before a stand-alone comment: the offset of the first unmasked
\* ';' of the line before it
StandAlonePad(prev) ==
    IF prev /= <<>> /\ Index(NoQuotes(prev, "x"), ";") /= -1
    THEN Spaces(Index(NoQuotes(prev, "x"), ";"))
    ELSE <<>>

\* the body of the overlay loop for a line with a comment: s is lines[i] and
\* prev is lines[i-1] (the empty string for the first line)
OverlayComment(s, prev, line, cfg) ==
    (IF line.Token /= NoToken
     THEN (IF line.Token.kind = "Instruction"
           THEN s \o Spaces(CommentPad(cfg, s))
           ELSE s \o <<"\t">>)
     ELSE s \o StandAlonePad(prev))
    \o TokenString(CommentToken(line.Comment))

\* the body of the overlay loop for index i (1-based): the new lines[i]
OverlayLine(lines, block, cfg, i) ==
    IF block[i].Comment = <<>> THEN lines[i]
    ELSE OverlayComment(lines[i], IF i > 1 THEN lines[i - 1] ELSE <<>>, block[i], cfg)

RECURSIVE OverlayFrom(_, _, _, _)
OverlayFrom(lines, block, cfg, i) ==
    IF i > Len(block) THEN lines
    ELSE OverlayFrom([lines EXCEPT ![i] = OverlayLine(lines, block, cfg, i)],
                     block, cfg, i + 1)

\* strings.Split(valign(lines), "\n"): the aligned cores and a last empty string
AlignedCores(block, cfg) == Append(valign(writeLinesNoComment(block, cfg)), <<>>)

\* the lines of the block with the comments laid over, before the second valign
Overlaid(block, cfg) == OverlayFrom(AlignedCores(block, cfg), block, cfg, 1)

\* writeBlock: the lines written to dst, each one followed by a newline
writeBlock(block, cfg) == valign(Overlaid(block, cfg))

RECURSIVE WriteBlocksFrom(_, _, _)
WriteBlocksFrom(bs, cfg, i) ==
    IF i > Len(bs) THEN <<>> ELSE writeBlock(bs[i], cfg) \o WriteBlocksFrom(bs, cfg, i + 1)

\* Format as a function of the source lines: the error, or the lines of dst
\* Format after the call of the parser, p being what the parser returned
FormatParsed(p, cfg) ==
    IF p.err.failed THEN [err |-> p.err, out |-> <<>>]
    ELSE [err |-> NoErr, out |-> WriteBlocksFrom(Segment(p.lines), cfg, 1)]

Format(text, cfg) == FormatParsed(ParseLines(text), cfg)

(***************************************************************************)
(* The inputs: source texts of at most MaxLines lines drawn from LinePool, *)
(* and the configurations of FormatConfig.                                 *)
(***************************************************************************)
MaxLines == 3

\* (a blank line)
BlankLine == <<>>

\* mov a,1 ;c
MovLine == <<"m", "o", "v", " ", "a", ",", "1", " ", ";", "c">>

\* l:
LabelLine == <<"l", ":">>

\* section .t
SectionLine == <<"s", "e", "c", "t", "i", "o", "n", " ", ".", "t">>

\* x equ $-m
EquLine == <<"x", " ", "e", "q", "u", " ", "$", "-", "m">>

\* db ";f"
QuotedLine == <<"d", "b", " ", "\"", ";", "f", "\"">>

\* [b]
BracketLine == <<"[", "b", "]">>

\* $
FaultLine == <<"$">>

\* ;s
CommentLine == <<";", "s">>

\* push rb ;k
PushLine == <<"p", "u", "s", "h", " ", "r", "b", " ", ";", "k">>

\* DB 1 ;k
UpperPseudoLine == <<"D", "B", " ", "1", " ", ";", "k">>

\* db
DbLine == <<"d", "b">>

\* l: ;k
LabelCommentLine == <<"l", ":", " ", ";", "k">>

LinePool ==
    {BlankLine,
     MovLine,
     LabelLine,
     SectionLine,
     EquLine,
     QuotedLine,
     BracketLine,
     FaultLine,
     CommentLine,
     PushLine,
     UpperPseudoLine,
     DbLine,
     LabelCommentLine}

Texts == UNION {[1..n -> LinePool] : n \in 0..MaxLines}

FormatConfig(ii, ci) == [InstructionIndent |-> ii, CommentIndent |-> ci]

Configs == {FormatConfig(2, 12)}

(***************************************************************************)
(* One call of Format(dst, src, cfg) as a state machine.                   *)
(***************************************************************************)
VARIABLES
    src,      \* the lines of the source text
    cfg,      \* the FormatConfig
    pc,       \* where Format is: parse, segment, write, done, failed
    lineIdx,  \* ParseLines' lineIdx
    lines,    \* ParseLines' lines: what the parser returns
    err,      \* the error Format returns
    iter,     \* the number of lines the segmenter has consumed
    blocks,   \* Format's blocks
    blockIdx, \* the number of blocks written
    dst,      \* the lines written to dst, each one followed by a newline
    fpc,      \* where formatFile is; "stdio" when the file is "-"
    disk,     \* the lines of the file named by the argument, as they are on disk
    temp,     \* the temporary file: none, open, closed, renamed, removed
    ferr,     \* the step whose error formatFile returns, "" for none
    steps     \* the steps of formatFile that have succeeded, in order

\* the variables of formatFile
fileVars == <<fpc, disk, temp, ferr, steps>>

vars == <<src, cfg, pc, lineIdx, lines, err, iter, blocks, blockIdx, dst, fileVars>>

Init ==
    /\ src \in Texts
    /\ cfg \in Configs
    /\ pc = "parse"
    /\ lineIdx = 0
    /\ lines = <<>>
    /\ err = NoErr
    /\ iter = 0
    /\ blocks = << <<>> >>
    /\ blockIdx = 0
    /\ dst = <<>>
    /\ fpc = "stdio"
    /\ disk = <<>>
    /\ temp = "none"
    /\ ferr = ""
    /\ steps = <<>>

\* ParseLines: one line scanned and parsed
ScanLine ==
    /\ pc = "parse"
    /\ lineIdx < Len(src)
    /\ \E r \in {ParseLine(src[lineIdx + 1])} :
          /\ ~r.err
          /\ lines' = Append(lines, r.line)
    /\ lineIdx' = lineIdx + 1
    /\ UNCHANGED <<src, cfg, pc, err, iter, blocks, blockIdx, dst>>
    /\ UNCHANGED fileVars

\* ParseLines: a line fails to parse; ParseLines returns lines and the error,
\* and Format returns the error
ScanFault ==
    /\ pc = "parse"
    /\ lineIdx < Len(src)
    /\ \E r \in {ParseLine(src[lineIdx + 1])} :
          /\ r.err
          /\ err' = LineError(lineIdx, r.excess)
    /\ pc' = "failed"
    /\ UNCHANGED <<src, cfg, lineIdx, lines, iter, blocks, blockIdx, dst>>
    /\ UNCHANGED fileVars

\* ParseLines returns the lines without an error
ParseReturn ==
    /\ pc = "parse"
    /\ lineIdx = Len(src)
    /\ pc' = "segment"
    /\ UNCHANGED <<src, cfg, lineIdx, lines, err, iter, blocks, blockIdx, dst>>
    /\ UNCHANGED fileVars

\* Format's loop: a blank line
NextBlank ==
    /\ pc = "segment"
    /\ iter < Len(lines)
    /\ IsEmpty(lines[iter + 1])
    /\ blocks' = addBlock(blocks)
    /\ iter' = iter + 1
    /\ UNCHANGED <<src, cfg, pc, lineIdx, lines, err, blockIdx, dst>>
    /\ UNCHANGED fileVars

\* Format's loop: a Section line
NextSection ==
    /\ pc = "segment"
    /\ iter < Len(lines)
    /\ ~IsEmpty(lines[iter + 1])
    /\ lines[iter + 1].Token.kind = "Section"
    /\ blocks' = addSection(blocks, lines[iter + 1])
    /\ iter' = iter + 1
    /\ UNCHANGED <<src, cfg, pc, lineIdx, lines, err, blockIdx, dst>>
    /\ UNCHANGED fileVars

\* Format's loop: any other line
NextOther ==
    /\ pc = "segment"
    /\ iter < Len(lines)
    /\ ~IsEmpty(lines[iter + 1])
    /\ lines[iter + 1].Token.kind /= "Section"
    /\ blocks' = addToBlock(blocks, lines[iter + 1])
    /\ iter' = iter + 1
    /\ UNCHANGED <<src, cfg, pc, lineIdx, lines, err, blockIdx, dst>>
    /\ UNCHANGED fileVars

\* the loop over the lines ends
SegmentDone ==
    /\ pc = "segment"
    /\ iter = Len(lines)
    /\ pc' = "write"
    /\ UNCHANGED <<src, cfg, lineIdx, lines, err, iter, blocks, blockIdx, dst>>
    /\ UNCHANGED fileVars

\* Format's second loop: one block written to dst
WriteBlock ==
    /\ pc = "write"
    /\ blockIdx < Len(blocks)
    /\ dst' = dst \o writeBlock(blocks[blockIdx + 1], cfg)
    /\ blockIdx' = blockIdx + 1
    /\ UNCHANGED <<src, cfg, pc, lineIdx, lines, err, iter, blocks>>
    /\ UNCHANGED fileVars

\* Format returns nil
Return ==
    /\ pc = "write"
    /\ blockIdx = Len(blocks)
    /\ pc' = "done"
    /\ UNCHANGED <<src, cfg, lineIdx, lines, err, iter, blocks, blockIdx, dst>>
    /\ UNCHANGED fileVars

Next ==
    \/ ScanLine
    \/ ScanFault
    \/ ParseReturn
    \/ NextBlank
    \/ NextSection
    \/ NextOther
    \/ SegmentDone
    \/ WriteBlock
    \/ Return

Spec == Init /\ [][Next]_vars

\* the model agrees with Format taken as a function
TypeOK ==
    /\ pc \in {"parse", "segment", "write", "done", "failed"}
    /\ lineIdx \in 0..Len(src)
    /\ iter \in 0..Len(lines)
    /\ blockIdx \in 0..Len(blocks)
    /\ pc = "done" => Format(src, cfg) = [err |-> NoErr, out |-> dst]
    /\ pc = "failed" => Format(src, cfg) = [err |-> err, out |-> <<>>]

(***************************************************************************)
(* The claims.                                                             *)
(***************************************************************************)
\* C1: Format is idempotent: formatting the output of a successful Format
\* gives the same text again, line for line, blank lines included.
Idempotence == pc = "done" => Format(dst, cfg) = [err |-> NoErr, out |-> dst]

\* the (mnemonic, operand list) pairs of the Instruction lines, in order
RECURSIVE InstructionPairs(_)
InstructionPairs(ls) ==
    IF Len(ls) = 0 THEN <<>>
    ELSE (IF ls[1].Token.kind = "Instruction"
          THEN << <<ls[1].Token.Instr, ls[1].Token.Args>> >>
          ELSE <<>>)
         \o InstructionPairs(Tail(ls))

\* C2: semantic round-trip: the output of a successful Format parses, and the
\* (mnemonic, operand list) pairs parsed from it are those parsed from the input.
SemanticRoundTrip ==
    pc = "done" =>
        /\ ~ParseLines(dst).err.failed
        /\ InstructionPairs(ParseLines(dst).lines) = InstructionPairs(lines)

\* C3: a fault on a line yields no partial result: the parser returns no Lines
\* with the error, and Format has written nothing to dst.
NoPartialResult == pc = "failed" => lines = <<>> /\ dst = <<>>

\* the number of lines written to dst before block b
RECURSIVE BlockStart(_, _)
BlockStart(bs, b) == IF b = 1 THEN 0 ELSE BlockStart(bs, b - 1) + Len(bs[b - 1]) + 1

\* the text s begins with the text t
HasPrefix(s, t) == Len(t) <= Len(s) /\ SubSeq(s, 1, Len(t)) = t

\* line i of block b is a Section line alone in its block, written to dst
\* with a blank line after it
SectionAloneAt(b, i) ==
    /\ Len(blocks[b]) = 1
    /\ BlockStart(blocks, b) + 2 <= Len(dst)
    /\ HasPrefix(dst[BlockStart(blocks, b) + 1], blocks[b][i].Token.Keyword)
    /\ dst[BlockStart(blocks, b) + 2] = <<>>

\* C4 as stated: every Section line is alone in its block, and in the output
\* it has a blank line before it and a blank line after it, wherever it stands.
SectionIsolation ==
    pc = "done" =>
        \A b \in 1..Len(blocks) : \A i \in 1..Len(blocks[b]) :
            blocks[b][i].Token.kind = "Section" =>
                /\ SectionAloneAt(b, i)
                /\ BlockStart(blocks, b) >= 1
                /\ dst[BlockStart(blocks, b)] = <<>>

\* the first line of the parsed lines that is not blank is a Section line
FirstLineIsSection ==
    \E m \in 1..Len(lines) :
        /\ lines[m].Token.kind = "Section"
        /\ \A k \in 1..(m - 1) : IsEmpty(lines[k])

\* C4, amended: every Section line is alone in its block and has a blank line
\* after it in the output; it has a blank line before it unless no line
\* before it in the source is non-blank, and then it is the first line of
\* the output.
SectionIsolationAmended ==
    pc = "done" =>
        \A b \in 1..Len(blocks) : \A i \in 1..Len(blocks[b]) :
            blocks[b][i].Token.kind = "Section" =>
                /\ SectionAloneAt(b, i)
                /\ b = 1 => FirstLineIsSection
                /\ b > 1 => dst[BlockStart(blocks, b)] = <<>>

\* a Section line stands between two non-blank lines of the source, and
\* Format has returned
SectionBetweenLines ==
    /\ pc = "done"
    /\ Len(src) = 3
    /\ src[1] = MovLine
    /\ src[2] = SectionLine
    /\ src[3] = PushLine

\* the cores of block b, before alignment
BlockCores(b) == writeLinesNoComment(blocks[b], cfg)

\* the cells of every row of the cores, as valign pads them
AlignedCells(cores) == [i \in 1..Len(cores) |-> ValignCells(cores, i)]

\* row i of the aligned rows has a cell in column j
HasColumn(aligned, i, j) == Len(aligned[i]) >= j

\* the aligned text of a row up to its cell of column j
BeforeCell(row, j) == Concat(SubSeq(row, 1, j - 1))

\* the offset at which the cell of column j starts in an aligned row
CellStart(row, j) == Len(BeforeCell(row, j))

\* the line of dst starts with the aligned row up to column j and the cell
CellWrittenAt(out, row, j, cell) == HasPrefix(out, BeforeCell(row, j) \o cell)

\* rows i1 and i2 of block b begin their cells of column j at one offset, and
\* row i1 stands in dst with the cell at that offset
SameCellStart(b, cores, aligned, i1, i2, j) ==
    /\ CellWrittenAt(dst[BlockStart(blocks, b) + i1], aligned[i1], j, Cells(cores[i1])[j])
    /\ CellStart(aligned[i1], j) = CellStart(aligned[i2], j)

\* the columns of block b are aligned on all rows that have them
BlockAligned(b, cores, aligned) ==
    \A i1, i2 \in 1..Len(cores) : \A j \in 1..Len(aligned[i1]) :
        HasColumn(aligned, i2, j) => SameCellStart(b, cores, aligned, i1, i2, j)

\* C5 as stated: in the output of a block, the cells of a column start at
\* the same offset on all rows of the block that have the column, rows
\* separated by a label line or a stand-alone comment line included.
ColumnAlignment ==
    pc = "done" =>
        \A b \in 1..Len(blocks) : \A cores \in {BlockCores(b)} :
            \A aligned \in {AlignedCells(cores)} : BlockAligned(b, cores, aligned)

\* every row between i1 and i2, both included, has a cell in column j
ColumnRun(aligned, i1, i2, j) ==
    \A m \in 1..Len(aligned) :
        ((i1 <= m /\ m <= i2) \/ (i2 <= m /\ m <= i1)) => HasColumn(aligned, m, j)

\* the columns of block b are aligned on the rows of every run of rows that
\* all have them
BlockAlignedInRuns(b, cores, aligned) ==
    \A i1, i2 \in 1..Len(cores) : \A j \in 1..Len(aligned[i1]) :
        ColumnRun(aligned, i1, i2, j) => SameCellStart(b, cores, aligned, i1, i2, j)

\* C5, amended: the cells of a column start at the same offset on the rows of
\* a run of consecutive rows of the block that all have the column; a row
\* without the column (a label line, a stand-alone comment line) ends the run.
ColumnAlignmentInRuns ==
    pc = "done" =>
        \A b \in 1..Len(blocks) : \A cores \in {BlockCores(b)} :
            \A aligned \in {AlignedCells(cores)} : BlockAlignedInRuns(b, cores, aligned)

\* two neighbouring rows of one block have a second column and first cells of
\* different widths, and Format has returned
NeighbourRowsPadded ==
    /\ pc = "done"
    /\ \E b \in 1..Len(blocks) : \E i \in 1..(Len(blocks[b]) - 1) :
          /\ ColumnRun(AlignedCells(BlockCores(b)), i, i + 1, 2)
          /\ Len(Cells(BlockCores(b)[i])[1]) /= Len(Cells(BlockCores(b)[i + 1])[1])
          /\ BlockStart(blocks, b) + i + 1 <= Len(dst)

\* the offset of the ';' of a comment after aligned code of length L, the
\* comment column being C: column C (1-based) when the code ends before
\* column C - 1, and else one space after the code
CommentOffset(L, C) == IF L < C - 1 THEN C - 1 ELSE L + 1

\* the line of dst is the aligned code, spaces up to CommentOffset, of which
\* there is one at least, and the comment
CommentAtColumn(out, core, comment, C) ==
    /\ CommentOffset(Len(core), C) - Len(core) >= 1
    /\ out = core \o Spaces(CommentOffset(Len(core), C) - Len(core))
                 \o <<";", " ">> \o comment

\* row i of the block is an Instruction line with a comment
InstructionWithComment(block, i) ==
    block[i].Token.kind = "Instruction" /\ block[i].Comment /= <<>>

\* C6: on every Instruction line with a comment, max(C - (L + 1), 1) spaces
\* stand between the aligned code of length L and the comment: the ';' is at
\* column C (1-based) when L < C - 1, and else at column L + 2.
CommentColumnBound ==
    pc = "done" =>
        \A b \in 1..Len(blocks) : \A aligned \in {valign(BlockCores(b))} :
            \A i \in 1..Len(blocks[b]) :
                InstructionWithComment(blocks[b], i) =>
                    CommentAtColumn(dst[BlockStart(blocks, b) + i], aligned[i],
                                    blocks[b][i].Comment, cfg.CommentIndent)

\* Format has returned, and one block has an Instruction line whose comment
\* is at the comment column and one whose code reaches past it
CommentAtColumnAndPastIt ==
    /\ pc = "done"
    /\ \E b \in 1..Len(blocks) : \E aligned \in {valign(BlockCores(b))} :
          \E i1, i2 \in 1..Len(blocks[b]) :
              /\ InstructionWithComment(blocks[b], i1)
              /\ InstructionWithComment(blocks[b], i2)
              /\ Len(aligned[i1]) < cfg.CommentIndent - 1
              /\ Len(aligned[i2]) >= cfg.CommentIndent - 1
              /\ BlockStart(blocks, b) + Len(blocks[b]) <= Len(dst)

\* C7: a line with text left over after the six recognizers fails the parse
\* with an error that reports the 1-based number of the line and the text
\* left over.
SyntaxFaultLineNumber ==
    pc = "failed" =>
        /\ err.failed
        /\ err.line = lineIdx + 1
        /\ err.excess = RunParsers(1, src[lineIdx + 1], <<>>).rest
        /\ \E i \in 1..Len(err.excess) : ~IsSpace(err.excess[i])

\* the number of characters q before position p (1-based) of s
QuotesBefore(s, p, q) == Cardinality({k \in 1..(p - 1) : s[k] = q})

\* position p of s is outside the quoted literals of s, the quotes of s being
\* closed and not mixed
OutsideQuotes(s, p) ==
    /\ QuotesBefore(s, p, "\"") % 2 = 0
    /\ QuotesBefore(s, p, "'") % 2 = 0

\* position p of s holds the first ';' of s outside quotes
FirstCommentStart(s, p) ==
    /\ s[p] = ";"
    /\ OutsideQuotes(s, p)
    /\ \A m \in 1..(p - 1) : s[m] = ";" => ~OutsideQuotes(s, m)

\* the Line l parsed from the source line s has its comment split off at the
\* first ';' outside quotes, and no comment when there is no such ';'
SplitOutsideQuotes(s, l) ==
    /\ l.Comment /= <<>> =>
          \E p \in 1..Len(s) :
              FirstCommentStart(s, p) /\ l.Comment = CommentBody(From(s, p))
    /\ l.Comment = <<>> => \A p \in 1..Len(s) : ~FirstCommentStart(s, p)

\* C8: a ';' inside a quoted literal starts no comment: the comment of a line
\* begins at its first ';' outside quotes, and db ";f" is a Pseudo token with
\* keyword db and text ";f" in its quotes, without a comment.
QuoteSafety ==
    pc = "done" =>
        \A k \in 1..Len(lines) :
            /\ SplitOutsideQuotes(src[k], lines[k])
            /\ src[k] = QuotedLine =>
                  lines[k] = Line(PseudoToken(<<>>, <<"d", "b">>, <<"\"", ";", "f", "\"">>),
                                  <<>>)

\* Format has returned on a source that has the line db ";f" and a line with
\* a comment
QuotedSemicolonParsed ==
    /\ pc = "done"
    /\ \E k \in 1..Len(lines) : src[k] = QuotedLine
    /\ \E k \in 1..Len(lines) : lines[k].Comment /= <<>>

\* the code of a source line: the text before its comment
Code(line) == ParseCommentToken(line).rest

IsWordRun(s) == \A i \in 1..Len(s) : IsWord(s[i])

IsPseudoKeyword(s) ==
    \E i \in 1..Len(pseudoKeywords) : [k \in 1..Len(s) |-> Lower(s[k])] = pseudoKeywords[i]

\* the code is a label that ends at offset a (none when a = 0), whitespace,
\* a pseudo keyword from offset b to offset c, whitespace and operand text
PseudoShape(code, a, b, c) ==
    /\ a <= b /\ b < c /\ c < Len(code)
    /\ (a = 0) = (b = 0)
    /\ a > 0 => b > a
    /\ IsWordRun(Slice(code, 0, a))
    /\ ~IsPseudoKeyword(Slice(code, 0, a))
    /\ \A i \in (a + 1)..b : IsSpace(code[i])
    /\ IsPseudoKeyword(Slice(code, b, c))
    /\ IsSpace(code[c + 1])
    /\ TrimSpace(From(code, c)) /= <<>>

\* the Line l is the Pseudo token of label, keyword and text, and its core is
\* the three joined by tabs, without the instruction indent
PseudoOf(l, label, keyword, text) ==
    /\ l.Token = PseudoToken(label, keyword, text)
    /\ writeLinesNoComment(<<l>>, cfg)[1] = label \o <<"\t">> \o keyword \o <<"\t">> \o text

\* C9: a line whose code is an optional label, a pseudo keyword in any letter
\* case and operand text is a Pseudo token with that label, that keyword and
\* the whole text that follows, rendered as the three joined by column
\* separators with no instruction indent; x equ $-m gives label x, keyword
\* equ, text $-m.
PseudoRecognition ==
    pc = "done" =>
        \A k \in 1..Len(lines) : \A code \in {Code(src[k])} :
            /\ \A a, b, c \in 0..Len(code) :
                  PseudoShape(code, a, b, c) =>
                      PseudoOf(lines[k], Slice(code, 0, a), Slice(code, b, c),
                               TrimSpace(From(code, c)))
            /\ src[k] = EquLine =>
                  lines[k].Token = PseudoToken(<<"x">>, <<"e", "q", "u">>, <<"$", "-", "m">>)

\* Format has returned on a source that has a pseudo line with a label and
\* one with an upper-case keyword and no label
PseudoLinesParsed ==
    /\ pc = "done"
    /\ \E k \in 1..Len(lines) : src[k] = EquLine /\ PseudoShape(Code(src[k]), 1, 2, 5)
    /\ \E k \in 1..Len(lines) : src[k] = UpperPseudoLine /\ PseudoShape(Code(src[k]), 0, 0, 2)

\* the characters of s that are not whitespace, in order
NonSpace(s) == SelectSeq(s, LAMBDA ch : ~IsSpace(ch))

\* C10: the mnemonic and the operands of an Instruction line hold every
\* character of its code that is not whitespace, in order, and the rendered
\* line differs from the code in whitespace only.
InstructionKeepsText ==
    pc = "done" =>
        \A k \in 1..Len(lines) :
            lines[k].Token.kind = "Instruction" =>
                /\ NonSpace(lines[k].Token.Instr \o Join(lines[k].Token.Args, <<",">>))
                      = NonSpace(Code(src[k]))
                /\ NonSpace(TokenString(lines[k].Token)) = NonSpace(Code(src[k]))

\* the Line l was parsed from a source line whose code is a mnemonic and
\* nothing else
MnemonicAlone(l) ==
    /\ l.Token.kind = "Instruction"
    /\ \E k \in 1..Len(lines) : lines[k] = l /\ TrimSpace(Code(src[k])) = l.Token.Instr

\* the Line l has no operands, and its aligned core and its line of dst are
\* the indent and the mnemonic, with nothing after the mnemonic but the comment
RenderedAlone(l, core, out) ==
    /\ l.Token.Args = <<>>
    /\ core = Spaces(cfg.InstructionIndent) \o l.Token.Instr
    /\ HasPrefix(out, core)
    /\ l.Comment = <<>> => out = core

\* C11: an instruction with nothing after its mnemonic has an empty operand
\* list and is rendered as the indent and the mnemonic alone, with no column
\* separator and no whitespace after the mnemonic.
ZeroOperands ==
    pc = "done" =>
        \A b \in 1..Len(blocks) : \A aligned \in {valign(BlockCores(b))} :
            \A i \in 1..Len(blocks[b]) :
                MnemonicAlone(blocks[b][i]) =>
                    RenderedAlone(blocks[b][i], aligned[i], dst[BlockStart(blocks, b) + i])

\* row i of the block is a stand-alone comment line that directly follows a
\* line with a comment
StandAloneAfterComment(block, i) ==
    /\ i > 1
    /\ block[i].Token = NoToken
    /\ block[i].Comment /= <<>>
    /\ block[i - 1].Comment /= <<>>

\* the two lines of dst have their first ';' outside quotes at one column
SameCommentColumn(prev, out) ==
    \E p \in 1..Len(out) : FirstCommentStart(out, p) /\ FirstCommentStart(prev, p)

\* C12: in the output of a block, a stand-alone comment line that directly
\* follows a line with a comment has its ';' at the column of the first ';'
\* outside quotes of the output line before it, whatever token that line has
\* and however many lines of the block have comments.
StandAloneCommentAligned ==
    pc = "done" =>
        \A b \in 1..Len(blocks) : \A i \in 1..Len(blocks[b]) :
            StandAloneAfterComment(blocks[b], i) =>
                SameCommentColumn(dst[BlockStart(blocks, b) + i - 1],
                                  dst[BlockStart(blocks, b) + i])

(***************************************************************************)
(* One call of formatFile(file) for a file other than "-".  A return after *)
(* the temporary file was created runs the deferred calls with it:         *)
(* dstbuf.Flush, dst.Close, os.Remove(dst.Name()) and src.Close.           *)
(***************************************************************************)
\* the deferred calls that leave the temporary file where it is
TempKept(t) == t

\* the temporary file after the deferred calls: os.Remove removes it under
\* its name, where it no longer is once it has been renamed
TempAfterDefers(t) == IF t \in {"open", "closed"} THEN "removed" ELSE t

\* the error a writer returns to Format
WriteError == [failed |-> TRUE, line |-> -1, excess |-> <<>>]

FileInit ==
    /\ src \in Texts
    /\ cfg \in Configs
    /\ pc = "parse"
    /\ lineIdx = 0
    /\ lines = <<>>
    /\ err = NoErr
    /\ iter = 0
    /\ blocks = << <<>> >>
    /\ blockIdx = 0
    /\ dst = <<>>
    /\ fpc = "open"
    /\ disk = src
    /\ temp = "none"
    /\ ferr = ""
    /\ steps = <<>>

\* os.Open succeeds
OpenFile ==
    /\ fpc = "open"
    /\ fpc' = "create"
    /\ steps' = Append(steps, "open")
    /\ UNCHANGED <<src, cfg, pc, lineIdx, lines, err, iter, blocks, blockIdx, dst>>
    /\ UNCHANGED <<disk, temp, ferr>>

\* os.Open fails: "cannot open"
OpenFault ==
    /\ fpc = "open"
    /\ fpc' = "returned"
    /\ ferr' = "open"
    /\ UNCHANGED <<src, cfg, pc, lineIdx, lines, err, iter, blocks, blockIdx, dst>>
    /\ UNCHANGED <<disk, temp, steps>>

\* os.CreateTemp succeeds
CreateTemp ==
    /\ fpc = "create"
    /\ fpc' = "format"
    /\ temp' = "open"
    /\ steps' = Append(steps, "create")
    /\ UNCHANGED <<src, cfg, pc, lineIdx, lines, err, iter, blocks, blockIdx, dst>>
    /\ UNCHANGED <<disk, ferr>>

\* os.CreateTemp fails: "cannot create temp"
CreateTempFault ==
    /\ fpc = "create"
    /\ fpc' = "returned"
    /\ ferr' = "create"
    /\ UNCHANGED <<src, cfg, pc, lineIdx, lines, err, iter, blocks, blockIdx, dst>>
    /\ UNCHANGED <<disk, temp, steps>>

\* nasmfmt.Format(dstbuf, src, cfg) returns nil
CallFormat ==
    /\ fpc = "format"
    /\ \E r \in {Format(src, cfg)} :
          /\ ~r.err.failed
          /\ dst' = r.out
    /\ pc' = "done"
    /\ fpc' = "flush"
    /\ steps' = Append(steps, "format")
    /\ UNCHANGED <<src, cfg, lineIdx, lines, err, iter, blocks, blockIdx>>
    /\ UNCHANGED <<disk, temp, ferr>>

\* nasmfmt.Format returns the error of the parser, and formatFile returns it
CallFormatFault ==
    /\ fpc = "format"
    /\ \E r \in {Format(src, cfg)} :
          /\ r.err.failed
          /\ err' = r.err
    /\ pc' = "failed"
    /\ fpc' = "returned"
    /\ ferr' = "format"
    /\ temp' = TempAfterDefers(temp)
    /\ UNCHANGED <<src, cfg, lineIdx, lines, iter, blocks, blockIdx, dst>>
    /\ UNCHANGED <<disk, steps>>

\* nasmfmt.Format returns the error of a write to dstbuf
FormatWriteFault ==
    /\ fpc = "format"
    /\ \E r \in {Format(src, cfg)} :
          /\ ~r.err.failed
          /\ err' = WriteError
    /\ pc' = "failed"
    /\ fpc' = "returned"
    /\ ferr' = "format"
    /\ temp' = TempAfterDefers(temp)
    /\ UNCHANGED <<src, cfg, lineIdx, lines, iter, blocks, blockIdx, dst>>
    /\ UNCHANGED <<disk, steps>>

\* dstbuf.Flush succeeds
Flush ==
    /\ fpc = "flush"
    /\ fpc' = "close"
    /\ steps' = Append(steps, "flush")
    /\ UNCHANGED <<src, cfg, pc, lineIdx, lines, err, iter, blocks, blockIdx, dst>>
    /\ UNCHANGED <<disk, temp, ferr>>

\* dstbuf.Flush fails: "cannot flush write buffer"
FlushFault ==
    /\ fpc = "flush"
    /\ fpc' = "returned"
    /\ ferr' = "flush"
    /\ temp' = TempAfterDefers(temp)
    /\ UNCHANGED <<src, cfg, pc, lineIdx, lines, err, iter, blocks, blockIdx, dst>>
    /\ UNCHANGED <<disk, steps>>

\* dst.Close succeeds
CloseTemp ==
    /\ fpc = "close"
    /\ fpc' = "rename"
    /\ temp' = "closed"
    /\ steps' = Append(steps, "close")
    /\ UNCHANGED <<src, cfg, pc, lineIdx, lines, err, iter, blocks, blockIdx, dst>>
    /\ UNCHANGED <<disk, ferr>>

\* dst.Close fails: "cannot close written temp"
CloseTempFault ==
    /\ fpc = "close"
    /\ fpc' = "returned"
    /\ ferr' = "close"
    /\ temp' = TempAfterDefers(temp)
    /\ UNCHANGED <<src, cfg, pc, lineIdx, lines, err, iter, blocks, blockIdx, dst>>
    /\ UNCHANGED <<disk, steps>>

\* os.Rename succeeds: the file has what Format wrote, and formatFile returns nil
Rename ==
    /\ fpc = "rename"
    /\ fpc' = "returned"
    /\ disk' = dst
    /\ temp' = TempAfterDefers("renamed")
    /\ steps' = Append(steps, "rename")
    /\ UNCHANGED <<src, cfg, pc, lineIdx, lines, err, iter, blocks, blockIdx, dst>>
    /\ UNCHANGED ferr

\* os.Rename fails: "cannot mv to commit write"
RenameFault ==
    /\ fpc = "rename"
    /\ fpc' = "returned"
    /\ ferr' = "rename"
    /\ temp' = TempAfterDefers(temp)
    /\ UNCHANGED <<src, cfg, pc, lineIdx, lines, err, iter, blocks, blockIdx, dst>>
    /\ UNCHANGED <<disk, steps>>

FileNext ==
    \/ OpenFile
    \/ OpenFault
    \/ CreateTemp
    \/ CreateTempFault
    \/ CallFormat
    \/ CallFormatFault
    \/ FormatWriteFault
    \/ Flush
    \/ FlushFault
    \/ CloseTemp
    \/ CloseTempFault
    \/ Rename
    \/ RenameFault

FileSpec == FileInit /\ [][FileNext]_vars

\* the steps of a call of formatFile that succeeds, in order
FullSuccess == <<"open", "create", "format", "flush", "close", "rename">>

\* C13: formatFile renames the temporary file over the file only after
\* formatting, flushing and closing have succeeded, in that order; when a
\* step fails, the file has the content it had and the temporary file is
\* removed.
RenameOnFullSuccess ==
    /\ temp = "renamed" => steps = FullSuccess /\ ferr = ""
    /\ disk /= src => temp = "renamed" /\ disk = dst
    /\ (fpc = "returned" /\ ferr \in {"format", "flush", "close", "rename"}) =>
          disk = src /\ temp = "removed"

\* formatFile has returned the error of dst.Close on a file that is not empty
CloseFailed ==
    /\ fpc = "returned"
    /\ ferr = "close"
    /\ steps = <<"open", "create", "format", "flush">>
    /\ dst /= <<>>
    /\ Len(src) > 0

====
